---- MODULE Spec2Model ----
(***************************************************************************)
(* Model of kudu/cfile/block_compression.cc: CompressedBlockBuilder and    *)
(* CompressedBlockDecoder, the framing layer around a compression codec.   *)
(*                                                                         *)
(* Widths are scaled: a byte has ByteBase values (256 in the build), a     *)
(* uint32_t is four bytes and a size_t eight bytes, so the 32-bit header   *)
(* fields wrap at ByteBase^4 and size_t arithmetic at ByteBase^8.          *)
(***************************************************************************)
EXTENDS Integers, Sequences, FiniteSets, TLC

\* ------------------------------------------------------------------ bounds
ByteBase == 2
MaxData == 2
MaxRanges == 2
MaxPayloadLen == 2
MaxCalls == 2

\* ------------------------------------------------------------- basic types
Byte == 0 .. (ByteBase - 1)
U32Mod == ByteBase ^ 4
SizeMod == ByteBase ^ 8
\* content of storage that was never written, or whose content is not known
Junk == 0 - 1

kHeaderReservedLength == 8

RECURSIVE SeqsUpTo(_)
SeqsUpTo(n) ==
  IF n = 0 THEN {<<>>}
  ELSE LET S == SeqsUpTo(n - 1)
       IN S \cup {Append(s, b) : s \in {t \in S : Len(t) = n - 1}, b \in Byte}

\* ------------------------------------------------------------------ coding
\* implicit size_t -> uint32_t conversion at a call that takes uint32_t
ToUint32(v) == v % U32Mod

\* little-endian fixed 32-bit encoding of a uint32_t
InlineEncodeFixed32(v) ==
  [i \in 1 .. 4 |-> (v \div (ByteBase ^ (i - 1))) % ByteBase]

\* a read of byte i of a slice; the decoder only reads inside the slice
ByteAt(data, i) == IF i <= Len(data) THEN data[i] ELSE 0

\* little-endian fixed 32-bit decoding of the four bytes starting at off + 1
DecodeFixed32(data, off) ==
  ByteAt(data, off + 1)
  + ByteAt(data, off + 2) * ByteBase
  + ByteAt(data, off + 3) * ByteBase * ByteBase
  + ByteAt(data, off + 4) * ByteBase * ByteBase * ByteBase

\* ------------------------------------------------------------------- codec
\* The codec bound to the Builder and the Decoder: a lossless codec that
\* stores a run of one repeated byte as <<1, b>> and anything else as
\* <<0>> followed by the bytes. The length of a run is not stored: the
\* decoder is told the expected uncompressed size.
MaxCompressedLength(n) == (n + 1) % SizeMod

Uniform(bytes) == Len(bytes) >= 1 /\ \A i \in 1 .. Len(bytes) : bytes[i] = bytes[1]

CodecCompress(bytes) ==
  IF Uniform(bytes) THEN <<1, bytes[1]>> ELSE <<0>> \o bytes

CodecUncompress(compressed, n) ==
  IF Len(compressed) = 0 THEN [ok |-> FALSE, out |-> <<>>]
  ELSE IF compressed[1] = 0
    THEN IF Len(compressed) - 1 = n
         THEN [ok |-> TRUE, out |-> Tail(compressed)]
         ELSE [ok |-> FALSE, out |-> <<>>]
  ELSE IF compressed[1] = 1 /\ Len(compressed) = 2 /\ n >= 1
    THEN [ok |-> TRUE, out |-> [i \in 1 .. n |-> compressed[2]]]
  ELSE [ok |-> FALSE, out |-> <<>>]

\* ----------------------------------------------------------------- slices
RECURSIVE Flatten(_)
Flatten(data_slices) ==
  IF data_slices = <<>> THEN <<>>
  ELSE Head(data_slices) \o Flatten(Tail(data_slices))

\* the Slice a caller holds before any Compress stored into it
NoSlice == [gen |-> 0 - 1, len |-> 0]

\* --------------------------------------------------------- scratch buffer
\* buffer_: data is the storage (its length is the capacity), len the size.
EmptyBuffer == [data |-> <<>>, len |-> 0]

Capacity(buf) == Len(buf.data)

\* resize keeps the storage when it is large enough and otherwise moves the
\* len live bytes into larger storage; newly exposed bytes are not cleared.
BufferResize(buf, n) ==
  IF n <= Capacity(buf)
  THEN [data |-> buf.data, len |-> n]
  ELSE [data |-> [i \in 1 .. n |-> IF i <= buf.len THEN buf.data[i] ELSE Junk],
        len |-> n]

\* a copy of bytes into the storage starting at offset off
BufferWrite(buf, off, bytes) ==
  [buf EXCEPT !.data =
     [i \in 1 .. Len(buf.data) |->
        IF i > off /\ i <= off + Len(bytes) THEN bytes[i - off] ELSE buf.data[i]]]

\* ------------------------------------------------- CompressedBlockBuilder
\* data_size: the sum of the sizes of the input slices, in size_t
RECURSIVE DataSize(_)
DataSize(data_slices) ==
  IF data_slices = <<>> THEN 0
  ELSE (Len(Head(data_slices)) + DataSize(Tail(data_slices))) % SizeMod

ExceedsLimitInclusive(max_compressed_size, limit) == max_compressed_size >= limit

ExceedsLimitFlipped(max_compressed_size, limit) == max_compressed_size < limit

\* the size-limit test on the codec's estimate
ExceedsLimit(max_compressed_size, limit) == max_compressed_size > limit

ResizeScratchFresh(buf, max_compressed_size) ==
  [data |-> [i \in 1 .. ((kHeaderReservedLength + max_compressed_size) % SizeMod) |-> Junk],
   len |-> (kHeaderReservedLength + max_compressed_size) % SizeMod]

\* buffer_.resize(kHeaderReservedLength + max_compressed_size)
ResizeScratch(buf, max_compressed_size) ==
  BufferResize(buf, (kHeaderReservedLength + max_compressed_size) % SizeMod)

ResultLengthWholeBuffer(buf, compressed_size) == buf.len

\* the length of the Slice stored into *result
ResultLength(buf, compressed_size) ==
  (compressed_size + kHeaderReservedLength) % SizeMod

\* the two header words written at offsets 0 and 4
WriteHeader(buf, compressed_size, data_size) ==
  BufferWrite(
    BufferWrite(buf, 0, InlineEncodeFixed32(ToUint32(compressed_size))),
    4, InlineEncodeFixed32(ToUint32(data_size)))

\* the bytes a Slice into the scratch buffer denotes
ReadSlice(buf, slice) == SubSeq(buf.data, 1, slice.len)

\* Compress(const vector<Slice>&, Slice*): b holds the Builder's buffer_, the
\* identity of its storage and the caller's *result; codecOk is the status
\* of the codec's Compress. What a failing codec leaves in its output area
\* is not specified, so that area then counts as never written.
Compress(b, data_slices, limit, codecOk) ==
  LET data_size == DataSize(data_slices)
      max_compressed_size == MaxCompressedLength(data_size)
  IN
  IF ExceedsLimit(max_compressed_size, limit)
  THEN [buffer |-> b.buffer, gen |-> b.gen, result |-> b.result,
        status |-> "InvalidArgument", steps |-> <<"estimate">>,
        errArgs |-> <<max_compressed_size, limit>>,
        compressed_size |-> 0, block |-> <<>>]
  ELSE
    LET resized == ResizeScratch(b.buffer, max_compressed_size)
        gen == IF Capacity(resized) = Capacity(b.buffer) THEN b.gen ELSE b.gen + 1
    IN
    IF ~codecOk
    THEN [buffer |-> BufferWrite(resized, kHeaderReservedLength,
                                 [i \in 1 .. max_compressed_size |-> Junk]),
          gen |-> gen, result |-> b.result,
          status |-> "CodecError", steps |-> <<"estimate", "resize", "codec">>,
          errArgs |-> <<>>, compressed_size |-> 0, block |-> <<>>]
    ELSE
      LET payload == CodecCompress(Flatten(data_slices))
          compressed_size == Len(payload)
          written == WriteHeader(
                       BufferWrite(resized, kHeaderReservedLength, payload),
                       compressed_size, data_size)
          slice == [gen |-> gen, len |-> ResultLength(written, compressed_size)]
      IN [buffer |-> written, gen |-> gen, result |-> slice,
          status |-> "OK", steps |-> <<"estimate", "resize", "codec", "header">>,
          errArgs |-> <<>>, compressed_size |-> compressed_size,
          block |-> ReadSlice(written, slice)]

\* Compress(const Slice&, Slice*): wraps the slice in a one-element vector
CompressSlice(b, data, limit, codecOk) == Compress(b, <<data>>, limit, codecOk)

\* ------------------------------------------------- CompressedBlockDecoder
\* no buffer was allocated
NoAlloc == 0 - 1

TooShortHalfHeader(size) == size < 4

\* the test that the data can hold the header
TooShort(size) == size < kHeaderReservedLength

LengthMismatchTruncatedOnly(size, compressed_size) ==
  size < (kHeaderReservedLength + compressed_size) % SizeMod

\* the test of the declared payload length against the data; the sum is
\* computed in size_t
LengthMismatch(size, compressed_size) ==
  size # (kHeaderReservedLength + compressed_size) % SizeMod

OverLimitWrongField(compressed_size, uncompressed_size, limit) ==
  compressed_size > limit

\* the test of the declared uncompressed size against the Decoder's limit
OverLimit(compressed_size, uncompressed_size, limit) == uncompressed_size > limit

\* the numbers printed into each Corruption message
ShortArgs(size) == <<size, kHeaderReservedLength>>

MismatchArgs(size, compressed_size) ==
  <<compressed_size, (size - kHeaderReservedLength) % SizeMod>>

LimitArgs(compressed_size, uncompressed_size, limit) == <<compressed_size, limit>>

\* Uncompress(const Slice&, Slice*): steps lists what the call did, in order;
\* alloc is the size of the output buffer it allocated.
Uncompress(data, limit) ==
  IF TooShort(Len(data))
  THEN [status |-> "Corruption", steps |-> <<"size_check">>,
        errArgs |-> ShortArgs(Len(data)), alloc |-> NoAlloc, out |-> <<>>]
  ELSE
    LET compressed_size == DecodeFixed32(data, 0)
        uncompressed_size == DecodeFixed32(data, 4)
    IN
    IF LengthMismatch(Len(data), compressed_size)
    THEN [status |-> "Corruption",
          steps |-> <<"size_check", "decode_header", "length_check">>,
          errArgs |-> MismatchArgs(Len(data), compressed_size),
          alloc |-> NoAlloc, out |-> <<>>]
    ELSE IF OverLimit(compressed_size, uncompressed_size, limit)
    THEN [status |-> "Corruption",
          steps |-> <<"size_check", "decode_header", "length_check", "limit_check">>,
          errArgs |-> LimitArgs(compressed_size, uncompressed_size, limit),
          alloc |-> NoAlloc, out |-> <<>>]
    ELSE
      LET compressed == SubSeq(data, kHeaderReservedLength + 1,
                               kHeaderReservedLength + compressed_size)
          r == CodecUncompress(compressed, uncompressed_size)
          steps == <<"size_check", "decode_header", "length_check", "limit_check",
                     "alloc", "codec">>
      IN IF r.ok
         THEN [status |-> "OK", steps |-> steps, errArgs |-> <<>>,
               alloc |-> uncompressed_size, out |-> r.out]
         ELSE [status |-> "CodecError", steps |-> steps, errArgs |-> <<>>,
               alloc |-> uncompressed_size, out |-> <<>>]

\* ------------------------------------------------------------------- state
VARIABLES
  compressed_size_limit_,    \* the Builder's limit
  uncompressed_size_limit_,  \* the Decoder's limit
  buffer_,                   \* the Builder's scratch buffer
  bufGen,                    \* identity of buffer_'s storage (changes when it moves)
  result,                    \* the caller's Slice, as left by the Compress calls
  resultBlock,               \* the bytes result denoted when it was returned
  earlier,                   \* the view the caller held before the last Compress
  calls,                     \* how many Compress calls the Builder has served
  bcall,                     \* the last Compress call: its input and outcome
  dcall                      \* the Uncompress call made since then: its input and outcome

vars == <<compressed_size_limit_, uncompressed_size_limit_, buffer_, bufGen,
          result, resultBlock, earlier, calls, bcall, dcall>>

\* inputs
\* the ways to present the bytes d as k slices
RECURSIVE Splits(_, _)
Splits(d, k) ==
  IF k = 1 THEN {<<d>>}
  ELSE UNION {{<<SubSeq(d, 1, i)>> \o rest :
                 rest \in Splits(SubSeq(d, i + 1, Len(d)), k - 1)} :
              i \in 0 .. Len(d)}

\* short inputs of every content, and one input as long as a 32-bit field
\* can count
DataBytes == {0, 1}
SmallData == {d \in SeqsUpTo(MaxData) : \A i \in 1 .. Len(d) : d[i] \in DataBytes}
BigRange == [i \in 1 .. U32Mod |-> 0]
Ranges == SmallData \cup {BigRange}
SliceLists ==
  {<<>>, <<BigRange>>, <<BigRange, <<1>>>>, <<BigRange, BigRange>>}
    \cup UNION {Splits(d, k) : d \in SmallData, k \in 1 .. MaxRanges}
BuilderLimits == {3, U32Mod + 4}
DecoderLimits == {2, U32Mod + 4}
HeaderSizes == (0 .. 3) \cup ((U32Mod - 2) .. (U32Mod - 1))
Payloads == SeqsUpTo(MaxPayloadLen)

\* blocks as they may come back from storage: any header over any payload,
\* possibly truncated
FullBlocks ==
  {InlineEncodeFixed32(cs) \o InlineEncodeFixed32(us) \o p :
     cs \in 0 .. (U32Mod - 1), us \in HeaderSizes, p \in Payloads}
Blocks == UNION {{SubSeq(b, 1, n) : n \in 0 .. Len(b)} : b \in FullBlocks}

NoEarlier == [view |-> NoSlice, block |-> <<>>]

NoBCall == [called |-> FALSE, data |-> <<>>,
            status |-> "none", steps |-> <<>>, errArgs |-> <<>>,
            compressed_size |-> 0, block |-> <<>>]

NoDCall == [called |-> FALSE, ofResult |-> FALSE, data |-> <<>>,
            status |-> "none", steps |-> <<>>, errArgs |-> <<>>,
            alloc |-> NoAlloc, out |-> <<>>]

Init ==
  /\ compressed_size_limit_ \in BuilderLimits
  /\ uncompressed_size_limit_ \in DecoderLimits
  /\ buffer_ = EmptyBuffer
  /\ bufGen = 0
  /\ result = NoSlice
  /\ resultBlock = <<>>
  /\ earlier = NoEarlier
  /\ calls = 0
  /\ bcall = NoBCall
  /\ dcall = NoDCall

\* the effect of one Compress call r on the state
BuilderReturns(r, data_slices) ==
  /\ calls < MaxCalls
  /\ calls' = calls + 1
  /\ buffer_' = r.buffer
  /\ bufGen' = r.gen
  /\ result' = r.result
  /\ resultBlock' = IF r.status = "OK" THEN r.block ELSE resultBlock
  /\ earlier' = IF result = NoSlice THEN earlier
                ELSE [view |-> result, block |-> resultBlock]
  /\ bcall' = [called |-> TRUE, data |-> Flatten(data_slices),
               status |-> r.status, steps |-> r.steps, errArgs |-> r.errArgs,
               compressed_size |-> r.compressed_size, block |-> r.block]
  /\ dcall' = NoDCall
  /\ UNCHANGED <<compressed_size_limit_, uncompressed_size_limit_>>

\* a caller compresses one slice
CompressOne ==
  \E data \in Ranges, codecOk \in BOOLEAN :
    BuilderReturns(
      CompressSlice([buffer |-> buffer_, gen |-> bufGen, result |-> result],
                    data, compressed_size_limit_, codecOk),
      <<data>>)

\* a caller compresses a vector of slices
CompressMany ==
  \E data_slices \in SliceLists, codecOk \in BOOLEAN :
    BuilderReturns(
      Compress([buffer |-> buffer_, gen |-> bufGen, result |-> result],
               data_slices, compressed_size_limit_, codecOk),
      data_slices)

\* the effect of one Uncompress call on the state
DecoderReturns(data, ofResult) ==
  LET r == Uncompress(data, uncompressed_size_limit_)
  IN /\ dcall' = [called |-> TRUE, ofResult |-> ofResult, data |-> data,
                  status |-> r.status, steps |-> r.steps, errArgs |-> r.errArgs,
                  alloc |-> r.alloc, out |-> r.out]
     /\ UNCHANGED <<compressed_size_limit_, uncompressed_size_limit_, buffer_,
                    bufGen, result, resultBlock, earlier, calls, bcall>>

\* a caller decodes the block the last Compress returned, while the view is
\* still valid
UncompressResult ==
  /\ ~dcall.called
  /\ bcall.status = "OK"
  /\ result.gen = bufGen
  /\ DecoderReturns(ReadSlice(buffer_, result), TRUE)

\* a caller decodes a block read back from storage; the Decoder keeps no
\* state between calls, so every call starts from the initial state
UncompressBlock ==
  /\ ~dcall.called
  /\ \E data \in Blocks : DecoderReturns(data, FALSE)

Next == CompressOne \/ CompressMany \/ UncompressResult

Spec == Init /\ [][Next]_vars

NextDecoder == UncompressBlock

SpecDecoder == Init /\ [][NextDecoder]_vars

\* ------------------------------------------------------------ properties
InSteps(steps, name) == \E i \in 1 .. Len(steps) : steps[i] = name

Before(steps, a, b) ==
  \E i \in 1 .. Len(steps) : \E j \in 1 .. Len(steps) :
    i < j /\ steps[i] = a /\ steps[j] = b

\* the last Compress call's input: the number of bytes in its ranges, and
\* the codec's estimate for them
InputSize == Len(bcall.data)
InputEstimate == MaxCompressedLength(InputSize)

\* the block the decoder was given, as its header reads
DeclaredCompressed == DecodeFixed32(dcall.data, 0)
DeclaredUncompressed == DecodeFixed32(dcall.data, 4)

\* the bytes one Compress call writes for its input: two 32-bit header
\* words and the codec's output
FreshBlock(data) ==
  LET payload == CodecCompress(data)
  IN InlineEncodeFixed32(ToUint32(Len(payload)))
       \o InlineEncodeFixed32(ToUint32(Len(data)))
       \o payload

\* C1: round trip. For input ranges whose estimated compressed length is
\* within the Builder's limit and whose total length is within the
\* Decoder's limit, with a codec that reports no error, Compress succeeds
\* and Uncompress of the returned block succeeds and returns the
\* concatenation of the ranges.
C1_RoundTrip ==
  (/\ bcall.called
   /\ bcall.status # "CodecError"
   /\ InputEstimate <= compressed_size_limit_
   /\ InputSize <= uncompressed_size_limit_)
  => /\ bcall.status = "OK"
     /\ (dcall.called /\ dcall.ofResult)
          => (dcall.status = "OK" /\ dcall.out = bcall.data)

\* C2: a block of length at least 8 whose length differs from
\* 8 + compressed_size is rejected with Corruption right after the length
\* check: no limit check, no allocation, no codec call.
C2_LengthMismatch ==
  (/\ dcall.called
   /\ Len(dcall.data) >= kHeaderReservedLength
   /\ Len(dcall.data) # kHeaderReservedLength + DeclaredCompressed)
  => /\ dcall.status = "Corruption"
     /\ dcall.steps = <<"size_check", "decode_header", "length_check">>
     /\ dcall.alloc = NoAlloc

C2_Witness ==
  /\ dcall.called
  /\ Len(dcall.data) > kHeaderReservedLength
  /\ DeclaredCompressed = U32Mod - 1
  /\ dcall.status = "Corruption"

\* C3: an output buffer is allocated only after the limit check passed and
\* is never larger than the limit; a well-sized block declaring an
\* uncompressed size over the limit yields Corruption with no allocation and
\* no codec call.
C3_BombGuard ==
  /\ dcall.alloc # NoAlloc =>
       /\ dcall.alloc <= uncompressed_size_limit_
       /\ Before(dcall.steps, "limit_check", "alloc")
  /\ (/\ dcall.called
      /\ Len(dcall.data) = kHeaderReservedLength + DeclaredCompressed
      /\ DeclaredUncompressed > uncompressed_size_limit_)
     => /\ dcall.status = "Corruption"
        /\ dcall.alloc = NoAlloc
        /\ ~InSteps(dcall.steps, "alloc")
        /\ ~InSteps(dcall.steps, "codec")

C3_Witness ==
  /\ dcall.called
  /\ Len(dcall.data) = kHeaderReservedLength + DeclaredCompressed
  /\ DeclaredUncompressed > uncompressed_size_limit_
  /\ DeclaredCompressed = 0
  /\ dcall.status = "Corruption"

\* C4: a block shorter than 8 bytes is rejected with Corruption by the
\* first check: the header is not decoded, nothing is allocated, the codec
\* is not called.
C4_ShortBuffer ==
  (dcall.called /\ Len(dcall.data) < kHeaderReservedLength)
  => /\ dcall.status = "Corruption"
     /\ dcall.steps = <<"size_check">>
     /\ dcall.alloc = NoAlloc

C4_Witness ==
  /\ dcall.called
  /\ Len(dcall.data) = kHeaderReservedLength - 1
  /\ dcall.status = "Corruption"

\* C5: a Compress call whose estimate exceeds the limit returns
\* InvalidArgument without calling the codec and leaves the scratch buffer
\* and the caller's result as they were; the Builder returns
\* InvalidArgument in no other case.
C5_PreCheck ==
  [][calls' # calls =>
       /\ (MaxCompressedLength(Len(bcall'.data)) > compressed_size_limit_)
            => /\ bcall'.status = "InvalidArgument"
               /\ ~InSteps(bcall'.steps, "codec")
               /\ ~InSteps(bcall'.steps, "resize")
               /\ buffer_' = buffer_
               /\ bufGen' = bufGen
               /\ result' = result
       /\ bcall'.status = "InvalidArgument"
            => MaxCompressedLength(Len(bcall'.data)) > compressed_size_limit_
    ]_vars

C5_Witness ==
  /\ bcall.status = "InvalidArgument"
  /\ InputEstimate > compressed_size_limit_
  /\ result # NoSlice
  /\ Capacity(buffer_) > 0

\* C6 as claimed: the whole returned block is within compressed_size_limit.
C6_TotalWithinLimit ==
  bcall.status = "OK" => Len(bcall.block) <= compressed_size_limit_

\* C6 as amended: the payload of every returned block is within
\* compressed_size_limit, so the block is within the limit plus the header.
C6_PayloadWithinLimit ==
  bcall.status = "OK" =>
    /\ bcall.compressed_size <= compressed_size_limit_
    /\ Len(bcall.block) <= compressed_size_limit_ + kHeaderReservedLength

C6_Witness ==
  /\ bcall.status = "OK"
  /\ Len(bcall.block) > compressed_size_limit_
  /\ bcall.compressed_size = compressed_size_limit_

\* C7: the returned view has length 8 + compressed_size and its header
\* words decode to the number of payload bytes the codec wrote and to the
\* sum of the input range lengths.
C7_HeaderExact ==
  bcall.status = "OK" =>
    /\ Len(bcall.block) = kHeaderReservedLength + bcall.compressed_size
    /\ DecodeFixed32(bcall.block, 0) = bcall.compressed_size
    /\ DecodeFixed32(bcall.block, 4) = InputSize

\* a later Compress call has run since the caller was handed the earlier view
LaterCallRan == earlier # NoEarlier

EarlierAliases == earlier.view.gen = bufGen

EarlierHolds == ReadSlice(buffer_, earlier.view) = earlier.block

AgreeOnOverlap(a, b) ==
  \A i \in 1 .. Len(a) : i <= Len(b) => a[i] = b[i]

C9_GrowOnly == [][Capacity(buffer_') >= Capacity(buffer_)]_vars

C9_Witness ==
  /\ calls >= 2
  /\ bcall.status = "OK"
  /\ buffer_.len < Capacity(buffer_)

\* C10: every Corruption error reports the two numbers its failing check
\* compared: length and 8 for a short buffer, compressed_size and the
\* remaining length for a mismatch, uncompressed_size and the limit for a
\* size-limit violation.
C10_ErrorNumbers ==
  (dcall.called /\ dcall.status = "Corruption") =>
    dcall.errArgs =
      IF Len(dcall.data) < kHeaderReservedLength
        THEN <<Len(dcall.data), kHeaderReservedLength>>
      ELSE IF Len(dcall.data) # kHeaderReservedLength + DeclaredCompressed
        THEN <<DeclaredCompressed, Len(dcall.data) - kHeaderReservedLength>>
      ELSE <<DeclaredUncompressed, uncompressed_size_limit_>>

====
